---- MODULE Spec2Model ----
(***************************************************************************)
(* Hybrid clause retrieval of the LawMan backend: min-max normalisation of *)
(* one backend's raw scores (normalize_scores), the key-based merge of the *)
(* lexical (OpenSearch/BM25) and vector (Qdrant) hit lists with a weighted *)
(* linear score (fuse_results), the optional cross-encoder reranking       *)
(* (rerank) and the /ask request handler that sequences them (ask); the    *)
(* knowledge graph builder (build_kg); and the /ingest handler with the    *)
(* requests it and /ask send to the OpenSearch index and the Qdrant        *)
(* collection.                                                             *)
(*                                                                         *)
(* Scores are Python floats in the source.  Raw scores are modelled by     *)
(* small integers and every derived score by an exact fraction in lowest   *)
(* terms, [num |-> n, den |-> d] with d > 0.                               *)
(***************************************************************************)
EXTENDS Integers, Sequences, FiniteSets, TLC

VARIABLES
    pc,              \* position of the call / request being executed
    payload,         \* the request: [top_k, alpha, rerank]
    given,           \* the lists as the backends (or the caller) handed them over
    os_results,      \* formatted hits of the lexical backend (OpenSearch)
    qdrant_results,  \* formatted hits of the vector backend (Qdrant)
    combined,        \* fuse_results' merge map, in insertion order
    fused,           \* the list fuse_results returned
    hits,            \* ask's local list: the fused, then the reranked hits
    reranked,        \* ask's local flag
    oracle_call,     \* what the cross-encoder did: "none", "scored" or "raised"
    backend_call,    \* what the two backends did: "none", "returned",
                     \* "lexical_raised" or "vector_raised"; for an ingestion
                     \* run "read_raised", "opensearch_raised", "qdrant_raised"
    response,        \* what the request returned: [status, detail, ...]
    clauses,         \* the clause records handed to build_kg / held by the clause file
    nodes,           \* build_kg's nodes dict, in insertion order
    edges,           \* build_kg's edges dict, in insertion order
    ingest_file,     \* the clause file as ingestion.ingest read it
    os_exists,       \* whether the OpenSearch index exists
    os_index,        \* the documents of the OpenSearch index, by _id
    qdrant_exists,   \* whether the Qdrant collection exists
    qdrant_points    \* the points of the Qdrant collection, by id

vars == <<pc, payload, given, os_results, qdrant_results, combined, fused, hits,
          reranked, oracle_call, backend_call, response,
          clauses, nodes, edges, ingest_file,
          os_exists, os_index, qdrant_exists, qdrant_points>>

\* the variables of the search pipeline
search_vars == <<given, os_results, qdrant_results, combined, fused, hits,
                 reranked, oracle_call, backend_call>>

\* the variables of the graph builder and of the clause files, and those of
\* the two stores
kg_vars == <<clauses, nodes, edges, ingest_file>>
store_vars == <<os_exists, os_index, qdrant_exists, qdrant_points>>

-----------------------------------------------------------------------------
(* Bounds of the model *)

\* most hits the two lists of a direct fuse_results call hold together
MaxHits == 3
\* longest list of a direct normalize_scores call
MaxNorm == 3
\* most hits the two backends return together to one /ask request
MaxAskHits == 2
\* largest top_k a request or a direct call uses
MaxTopK == 2
\* most hits the two lists hold together when a hit lacks an identifier
MaxMalformed == 2
\* longest list a backend returns to one of two concurrent requests
MaxTwoHits == 2
\* longest clause list handed to build_kg
MaxClauses == 2

\* raw backend scores (BM25 scores, cosine similarities), as small integers
RawScores == {0, 1, 2}

ContractIds == {"c1", "c2"}
ClauseIds == {"k1", "k2"}

-----------------------------------------------------------------------------
(* Exact fractions for float scores *)

RECURSIVE GCD(_, _)
GCD(a, b) == IF b = 0 THEN a ELSE GCD(b, a % b)

Abs(x) == IF x < 0 THEN -x ELSE x

\* n/d in lowest terms, d > 0
Frac(n, d) ==
    LET g == GCD(Abs(n), Abs(d))
        s == IF d < 0 THEN -1 ELSE 1
    IN  [num |-> (s * n) \div g, den |-> (s * d) \div g]

Zero == [num |-> 0, den |-> 1]
One == [num |-> 1, den |-> 1]

FAdd(x, y) == Frac(x.num * y.den + y.num * x.den, x.den * y.den)
FSub(x, y) == Frac(x.num * y.den - y.num * x.den, x.den * y.den)
FMul(x, y) == Frac(x.num * y.num, x.den * y.den)
FDiv(x, y) == Frac(x.num * y.den, x.den * y.num)
FLess(x, y) == x.num * y.den < y.num * x.den
FLeq(x, y) == x.num * y.den <= y.num * x.den
FromInt(n) == [num |-> n, den |-> 1]

InUnit(x) == FLeq(Zero, x) /\ FLeq(x, One)

-----------------------------------------------------------------------------
(* Generic list helpers *)

Min2(a, b) == IF a <= b THEN a ELSE b
Max2(a, b) == IF a >= b THEN a ELSE b

\* Python's s[:n]
Take(s, n) == SubSeq(s, 1, Min2(n, Len(s)))

\* all sequences over S of length at most n
SeqsUpTo(S, n) == UNION {[1..m -> S] : m \in 0..n}

\* the stable descending order of Python's sorted(s, key=..., reverse=True):
\* keys[i] is the key of s[i]; equal keys keep their order in s
Rank(keys, i) ==
    1 + Cardinality({j \in 1..Len(keys) : FLess(keys[i], keys[j])})
      + Cardinality({j \in 1..(i - 1) : keys[j] = keys[i]})

Sorted(s, keys) ==
    [r \in 1..Len(s) |-> s[CHOOSE i \in 1..Len(s) : Rank(keys, i) = r]]

-----------------------------------------------------------------------------
(* Hits as the two formatters build them *)

TextOf(c, k) ==
    CASE c = "c1" /\ k = "k1" -> "t11"
      [] c = "c1" /\ k = "k2" -> "t12"
      [] c = "c2" /\ k = "k1" -> "t21"
      [] OTHER -> "t22"

\* one record of format_search_results: the lexical backend supplies highlights
LexHit(c, k, s) ==
    [contract_id |-> c, clause_id |-> k, text_snippet |-> TextOf(c, k),
     score |-> s, highlight |-> <<TextOf(c, k)>>]

\* one record of format_qdrant_results: "highlight": []
VecHit(c, k, s) ==
    [contract_id |-> c, clause_id |-> k, text_snippet |-> TextOf(c, k),
     score |-> s, highlight |-> <<>>]

LexHits == {LexHit(c, k, s) : c \in ContractIds, k \in ClauseIds, s \in RawScores}
VecHits == {VecHit(c, k, s) : c \in ContractIds, k \in ClauseIds, s \in RawScores}

\* the identity of a clause in the corpus: both stores index a clause under
\* "<contract_id>#<clause_id>"
ClauseOf(r) == <<r.contract_id, r.clause_id>>

\* a backend returns every indexed clause at most once
NoRepeat(s) == \A i, j \in 1..Len(s) : ClauseOf(s[i]) = ClauseOf(s[j]) => i = j

-----------------------------------------------------------------------------
(* hybrid_search.py: normalize_scores *)

SeqMin(s) == CHOOSE x \in {s[i] : i \in 1..Len(s)} : \A i \in 1..Len(s) : x <= s[i]
SeqMax(s) == CHOOSE x \in {s[i] : i \in 1..Len(s)} : \A i \in 1..Len(s) : x >= s[i]

\* a tied set collapsed to zero weight instead of 1.0
UniformNormZero == Zero

\* line 13: the value every hit gets when min_s == max_s
UniformNorm == One

\* the rescaling without the shift by min_s
MinMaxNormNoShift(s, min_s, max_s) == FDiv(FromInt(s), FromInt(max_s - min_s))

\* line 16: (s - min_s) / (max_s - min_s)
MinMaxNorm(s, min_s, max_s) == FDiv(FromInt(s - min_s), FromInt(max_s - min_s))

\* line 11: min_s == max_s
IsUniform(min_s, max_s) == min_s = max_s

\* line 9: scores = [float(r.get("score", 0.0)) for r in results]
ScoresOf(results) == [i \in 1..Len(results) |-> results[i].score]

\* line 16 divides by max_s - min_s: Python raises ZeroDivisionError on 0.0
normalize_raises(results) ==
    /\ results # <<>>
    /\ ~IsUniform(SeqMin(ScoresOf(results)), SeqMax(ScoresOf(results)))
    /\ SeqMax(ScoresOf(results)) - SeqMin(ScoresOf(results)) = 0

\* the hits handed back in the opposite order
normalize_scores_reversed(results) ==
    [i \in 1..Len(results) |->
        [norm_score |-> One] @@ results[Len(results) + 1 - i]]

normalize_scores(results) ==
    IF results = <<>> THEN results
    ELSE LET scores == ScoresOf(results)
             min_s == SeqMin(scores)
             max_s == SeqMax(scores)
         IN  IF IsUniform(min_s, max_s)
             THEN [i \in 1..Len(results) |->
                      [norm_score |-> UniformNorm] @@ results[i]]
             ELSE [i \in 1..Len(results) |->
                      [norm_score |-> MinMaxNorm(scores[i], min_s, max_s)] @@ results[i]]

-----------------------------------------------------------------------------
(* hybrid_search.py: fuse_results *)

\* lines 27, 34: cid = r["clause_id"], the key of the merge map
KeyOf(r) == r.clause_id

HasKey(map, k) == \E i \in 1..Len(map) : map[i].key = k
IndexOf(map, k) == CHOOSE i \in 1..Len(map) : map[i].key = k

\* combined[k] = v on a dict that keeps insertion order: an existing key keeps
\* its place and gets the new value
Put(map, k, v) ==
    IF HasKey(map, k)
    THEN [map EXCEPT ![IndexOf(map, k)] = [key |-> k, val |-> v]]
    ELSE Append(map, [key |-> k, val |-> v])

\* lines 28-30: the entry seeded from a lexical hit
SeedEntry(r) == [bm25_score |-> r.norm_score, vec_score |-> Zero] @@ r

\* the join that also takes the vector hit's (empty) highlight
JoinEntryVectorHighlight(e, r) ==
    [vec_score |-> r.norm_score, score |-> Max2(e.score, r.score),
     highlight |-> r.highlight] @@ e

\* lines 36-37: a vector hit joins an entry already in the map
JoinEntry(e, r) ==
    [vec_score |-> r.norm_score, score |-> Max2(e.score, r.score)] @@ e

\* lines 39-42: the entry of a vector hit whose key is new
VecEntry(r) ==
    [bm25_score |-> Zero, vec_score |-> r.norm_score, highlight |-> <<>>] @@ r

\* lines 26-30: "Insert BM25 results first"
RECURSIVE InsertBM25(_, _)
InsertBM25(map, rs) ==
    IF rs = <<>> THEN map
    ELSE InsertBM25(Put(map, KeyOf(Head(rs)), SeedEntry(Head(rs))), Tail(rs))

\* lines 33-42: "Merge Qdrant results"
RECURSIVE MergeQdrant(_, _)
MergeQdrant(map, rs) ==
    IF rs = <<>> THEN map
    ELSE LET r == Head(rs)
             k == KeyOf(r)
         IN  MergeQdrant(
                 IF HasKey(map, k)
                 THEN Put(map, k, JoinEntry(map[IndexOf(map, k)].val, r))
                 ELSE Put(map, k, VecEntry(r)),
                 Tail(rs))

\* line 46: alpha * bm25_score + (1 - alpha) * vec_score
HybridScore(alpha, e) ==
    FAdd(FMul(alpha, e.bm25_score), FMul(FSub(One, alpha), e.vec_score))

\* lines 45-46
WithHybrid(map, alpha) ==
    [i \in 1..Len(map) |->
        [key |-> map[i].key,
         val |-> [hybrid_score |-> HybridScore(alpha, map[i].val)] @@ map[i].val]]

\* lines 23-46: the merge map of two normalised lists
Combine(os, qd, alpha) == WithHybrid(MergeQdrant(InsertBM25(<<>>, os), qd), alpha)

\* combined.values()
Values(map) == [i \in 1..Len(map) |-> map[i].val]

\* line 48
SortByHybrid(es) == Sorted(es, [i \in 1..Len(es) |-> es[i].hybrid_score])

\* the ranking without the cut to top_k
Rank_NoCut(map, top_k) == SortByHybrid(Values(map))

\* lines 48-49 applied to the merge map
Rank_TopK(map, top_k) == Take(SortByHybrid(Values(map)), top_k)

fuse_results(os, qd, alpha, top_k) ==
    Rank_TopK(Combine(normalize_scores(os), normalize_scores(qd), alpha), top_k)

-----------------------------------------------------------------------------
(* Inputs *)

Half == [num |-> 1, den |-> 2]
Quarter == [num |-> 1, den |-> 4]

\* weights in [0, 1], boundary values included
Alphas == {Zero, Quarter, Half, One}

NoResponse == [status |-> 0]
NoPayload == [top_k |-> 1, alpha |-> Half, rerank |-> FALSE]
NoGiven == [os |-> <<>>, qd |-> <<>>]

ListsOfLen(H, m) == {s \in [1..m -> H] : NoRepeat(s)}

\* no file read yet
NoFile == [kind |-> "none", clauses |-> <<>>]

\* nothing built, no file read
NoGraph ==
    /\ clauses = <<>>
    /\ nodes = <<>>
    /\ edges = <<>>
    /\ ingest_file = NoFile

\* nothing built, nothing stored: the graph builder and the stores play no
\* part in a direct call of the pure functions
NoGraphNoStores ==
    /\ NoGraph
    /\ os_exists = FALSE
    /\ os_index = {}
    /\ qdrant_exists = FALSE
    /\ qdrant_points = {}

-----------------------------------------------------------------------------
(* Direct calls of normalize_scores *)

NormInit ==
    /\ pc = "norm_call"
    /\ os_results \in SeqsUpTo(LexHits, MaxNorm)
    /\ given = [os |-> os_results, qd |-> <<>>]
    /\ payload = NoPayload
    /\ qdrant_results = <<>>
    /\ combined = <<>>
    /\ fused = <<>>
    /\ hits = <<>>
    /\ reranked = FALSE
    /\ oracle_call = "none"
    /\ backend_call = "none"
    /\ response = NoResponse
    /\ NoGraphNoStores

\* normalize_scores(os_results): the hits are mutated in place and the same
\* list is returned; a ZeroDivisionError leaves the call at "norm_raised"
NormCall ==
    /\ pc = "norm_call"
    /\ IF normalize_raises(os_results)
       THEN /\ pc' = "norm_raised"
            /\ UNCHANGED <<os_results, hits>>
       ELSE /\ pc' = "norm_done"
            /\ os_results' = normalize_scores(os_results)
            /\ hits' = os_results'
    /\ UNCHANGED <<payload, given, qdrant_results, combined, fused, reranked,
                   oracle_call, backend_call, response>>
    /\ UNCHANGED <<kg_vars, store_vars>>

NormNext == NormCall

SpecNorm == NormInit /\ [][NormNext]_vars

-----------------------------------------------------------------------------
(* Direct calls of fuse_results *)

FuseInit ==
    /\ pc = "fuse_call"
    /\ \E l \in 0..MaxHits :
          /\ os_results \in ListsOfLen(LexHits, l)
          /\ qdrant_results \in UNION {ListsOfLen(VecHits, v) : v \in 0..(MaxHits - l)}
    /\ given = [os |-> os_results, qd |-> qdrant_results]
    /\ payload \in [top_k : 1..MaxTopK, alpha : Alphas, rerank : {FALSE}]
    /\ combined = <<>>
    /\ fused = <<>>
    /\ hits = <<>>
    /\ reranked = FALSE
    /\ oracle_call = "none"
    /\ backend_call = "none"
    /\ response = NoResponse
    /\ NoGraphNoStores

\* fuse_results(os_results, qdrant_results, alpha, top_k): the two lists are
\* normalised in place, the merge map is built, ranked and cut
FuseCall ==
    /\ pc = "fuse_call"
    /\ os_results' = normalize_scores(os_results)
    /\ qdrant_results' = normalize_scores(qdrant_results)
    /\ combined' = Combine(os_results', qdrant_results', payload.alpha)
    /\ fused' = fuse_results(os_results, qdrant_results, payload.alpha, payload.top_k)
    /\ pc' = "fuse_done"
    /\ UNCHANGED <<payload, given, hits, reranked, oracle_call, backend_call,
                   response>>
    /\ UNCHANGED <<kg_vars, store_vars>>

FuseNext == FuseCall

SpecFuse == FuseInit /\ [][FuseNext]_vars

-----------------------------------------------------------------------------
(* Direct calls of fuse_results with hits that lack an identifier *)

\* Python's None: what src.get("contract_id") / p.get("clause_id") give when
\* the stored document has no such field
None == "None"

MissingKey(r) == r.contract_id = None \/ r.clause_id = None

\* the identifier pairs of a formatted hit with at least one of them missing
MalformedIds ==
    ({None} \X ClauseIds) \cup (ContractIds \X {None}) \cup {<<None, None>>}

MalformedLexHits == {LexHit(p[1], p[2], s) : p \in MalformedIds, s \in RawScores}
MalformedVecHits == {VecHit(p[1], p[2], s) : p \in MalformedIds, s \in RawScores}

MalformedInit ==
    /\ pc = "fuse_call"
    /\ \E l \in 0..MaxMalformed :
          /\ os_results \in ListsOfLen(LexHits \cup MalformedLexHits, l)
          /\ qdrant_results \in
                UNION {ListsOfLen(VecHits \cup MalformedVecHits, v) :
                          v \in 0..(MaxMalformed - l)}
    /\ \/ \E i \in 1..Len(os_results) : MissingKey(os_results[i])
       \/ \E i \in 1..Len(qdrant_results) : MissingKey(qdrant_results[i])
    /\ given = [os |-> os_results, qd |-> qdrant_results]
    /\ payload \in [top_k : 1..MaxTopK, alpha : {Half}, rerank : {FALSE}]
    /\ combined = <<>>
    /\ fused = <<>>
    /\ hits = <<>>
    /\ reranked = FALSE
    /\ oracle_call = "none"
    /\ backend_call = "none"
    /\ response = NoResponse
    /\ NoGraphNoStores

\* None is a hashable dict key: r["clause_id"] and combined[cid] do not raise,
\* so the call runs as any other
MalformedNext == FuseCall

SpecMalformed == MalformedInit /\ [][MalformedNext]_vars

-----------------------------------------------------------------------------
(* reranker.py: rerank *)

\* scores the cross-encoder can give one (query, text_snippet) pair
OracleScores == {-1, 1}

\* the oracle's score written over the display score as well
AttachScoresOverScore(oracle, hybrid_results) ==
    [i \in 1..Len(hybrid_results) |->
        [reranker_score |-> oracle[hybrid_results[i].text_snippet],
         score |-> oracle[hybrid_results[i].text_snippet]] @@ hybrid_results[i]]

\* lines 38-39: r["reranker_score"] = float(score), one score per candidate;
\* oracle maps a candidate's text_snippet to the model's logit for it
AttachScores(oracle, hybrid_results) ==
    [i \in 1..Len(hybrid_results) |->
        [reranker_score |-> oracle[hybrid_results[i].text_snippet]] @@ hybrid_results[i]]

\* the sort without reverse=True
SortByRerankerAscending(rs) ==
    Sorted(rs, [i \in 1..Len(rs) |-> FromInt(-rs[i].reranker_score)])

\* line 42
SortByReranker(rs) == Sorted(rs, [i \in 1..Len(rs) |-> FromInt(rs[i].reranker_score)])

\* lines 19-44
rerank(oracle, hybrid_results, top_k) ==
    Take(SortByReranker(AttachScores(oracle, hybrid_results)), top_k)

-----------------------------------------------------------------------------
(* routers/ask.py: the /ask request handler *)

Texts(hs) == {hs[i].text_snippet : i \in 1..Len(hs)}

\* schemas.py line 39: top_k ... le=100
TopKCap == 100

MinusQuarter == [num |-> -1, den |-> 4]
FiveQuarters == [num |-> 5, den |-> 4]

\* request bodies a client can post: top_k and alpha inside, on and beyond the
\* limits of the schema
RequestBodies ==
    [top_k : {0} \cup (1..MaxTopK) \cup {TopKCap, TopKCap + 1},
     alpha : Alphas \cup {MinusQuarter, FiveQuarters},
     rerank : BOOLEAN]

\* the validation without the upper limit of top_k
ValidatesNoCap(b) ==
    /\ b.top_k >= 1
    /\ FLeq(Zero, b.alpha) /\ FLeq(b.alpha, One)

\* schemas.py lines 39-40: top_k ge=1, le=100; alpha ge=0.0, le=1.0
Validates(b) ==
    /\ b.top_k >= 1 /\ b.top_k <= TopKCap
    /\ FLeq(Zero, b.alpha) /\ FLeq(b.alpha, One)

\* schemas.py HybridSearchRequest: the bodies that validate
Payloads == {b \in RequestBodies : Validates(b)}

\* the framework's answer to a body that does not validate
RejectResponse == [status |-> 422, detail |-> "Unprocessable Entity"]

\* lines 36-42: HybridSearchResponse(...)
OkResponse(p, rr, hs) ==
    [status |-> 200, top_k |-> p.top_k, alpha |-> p.alpha, reranked |-> rr,
     results |-> hs]

\* lines 24, 32: HTTPException(status_code=500, detail=...)
ErrorResponse(what) == [status |-> 500, detail |-> what]

\* the error swallowed and the fused list answered as it is
OnRerankErrorFallBack(p, rr, hs) == OkResponse(p, rr, hs)

\* lines 31-32: what the handler answers when run_rerank raised
OnRerankError(p, rr, hs) == ErrorResponse("Reranking failed")

\* the oracle consulted whatever the request asks
RerankAlways(p) == TRUE

\* line 27: if payload.rerank
RerankRequested(p) == p.rerank

\* retrieval.py:95 and vector_search.py:70: a document is stored under
\* contract_id#clause_id
DocId(c) == <<c.contract_id, c.clause_id>>
DocIds(cs) == {DocId(cs[i]) : i \in 1..Len(cs)}

\* the corpus the searched clauses come from
AskDocs == ContractIds \X ClauseIds

\* hybrid_search.py line 57: VectorStore(reset=False); ingestion.py line 19:
\* VectorStore(reset=reset, ...)
VSReset == IF "reset" \in DOMAIN payload THEN payload.reset ELSE FALSE

\* the positions of a request inside VectorStore.__init__ and before the
\* first use of the store
VectorStages == {"vs_exists", "vs_exists_again", "vs_delete", "vs_create", "vs_ready"}

Init ==
    /\ pc = "idle"
    /\ payload = NoPayload
    /\ given = NoGiven
    /\ os_results = <<>>
    /\ qdrant_results = <<>>
    /\ combined = <<>>
    /\ fused = <<>>
    /\ hits = <<>>
    /\ reranked = FALSE
    /\ oracle_call = "none"
    /\ backend_call = "none"
    /\ response = NoResponse
    /\ NoGraph
    /\ os_exists \in BOOLEAN
    /\ os_index \in (IF os_exists THEN {{}, AskDocs} ELSE {{}})
    /\ qdrant_exists \in BOOLEAN
    /\ qdrant_points \in (IF qdrant_exists THEN {{}, AskDocs} ELSE {{}})

\* line 16: a validated HybridSearchRequest reaches the handler
Receive ==
    /\ pc = "idle"
    /\ \E b \in RequestBodies :
          /\ Validates(b)
          /\ payload' = b
    /\ pc' = "lexical_search"
    /\ UNCHANGED <<given, os_results, qdrant_results, combined, fused, hits,
                   reranked, oracle_call, backend_call, response>>
    /\ UNCHANGED <<kg_vars, store_vars>>

\* line 16: the body fails the validation of HybridSearchRequest; the handler
\* is not entered
Reject ==
    /\ pc = "idle"
    /\ \E b \in RequestBodies :
          /\ ~Validates(b)
          /\ payload' = b
    /\ response' = RejectResponse
    /\ pc' = "done"
    /\ UNCHANGED <<given, os_results, qdrant_results, combined, fused, hits,
                   reranked, oracle_call, backend_call>>
    /\ UNCHANGED <<kg_vars, store_vars>>

\* hybrid_search.py lines 53-55: the lexical backend returns at most top_k
\* (size=top_k) of the documents the index holds; os_formatted is the
\* formatted list
LexicalSearchReturns ==
    /\ pc = "lexical_search"
    /\ os_exists
    /\ \E l \in 0..Min2(payload.top_k, MaxAskHits) :
       \E os \in ListsOfLen(LexHits, l) :
          /\ DocIds(os) \subseteq os_index
          /\ given' = [os |-> os, qd |-> <<>>]
          /\ os_results' = os
    /\ pc' = "vs_exists"
    /\ UNCHANGED <<payload, qdrant_results, combined, fused, hits, reranked,
                   oracle_call, backend_call, response>>
    /\ UNCHANGED <<kg_vars, store_vars>>

\* vector_search.py line 39: if reset or not collection_exists(...); with
\* reset set the request is not sent
VectorStoreExists ==
    /\ pc = "vs_exists"
    /\ pc' = IF VSReset \/ ~qdrant_exists THEN "vs_exists_again" ELSE "vs_ready"
    /\ UNCHANGED <<payload, response, search_vars, kg_vars, store_vars>>

\* vector_search.py line 40: if collection_exists(...), asked a second time
VectorStoreExistsAgain ==
    /\ pc = "vs_exists_again"
    /\ pc' = IF qdrant_exists THEN "vs_delete" ELSE "vs_create"
    /\ UNCHANGED <<payload, response, search_vars, kg_vars, store_vars>>

\* vector_search.py line 41: delete_collection
VectorStoreDeletes ==
    /\ pc = "vs_delete"
    /\ qdrant_exists' = FALSE
    /\ qdrant_points' = {}
    /\ pc' = "vs_create"
    /\ UNCHANGED <<payload, response, search_vars, kg_vars, os_exists, os_index>>

\* vector_search.py lines 43-47: create_collection; Qdrant refuses to create a
\* collection that exists
VectorStoreCreates ==
    /\ pc = "vs_create"
    /\ ~qdrant_exists
    /\ qdrant_exists' = TRUE
    /\ qdrant_points' = {}
    /\ pc' = "vs_ready"
    /\ UNCHANGED <<payload, response, search_vars, kg_vars, os_exists, os_index>>

\* lines 19-22 with hybrid_search.py 58-61: the vector backend returns at most
\* top_k (limit=top_k) of the points the collection holds; the formatted
\* lists are fused
HybridSearchReturns ==
    /\ pc = "vs_ready"
    /\ qdrant_exists
    /\ \E v \in 0..Min2(payload.top_k, MaxAskHits - Len(given.os)) :
       \E qd \in ListsOfLen(VecHits, v) :
          /\ DocIds(qd) \subseteq qdrant_points
          /\ given' = [os |-> given.os, qd |-> qd]
          /\ os_results' = normalize_scores(given.os)
          /\ qdrant_results' = normalize_scores(qd)
          /\ combined' = Combine(os_results', qdrant_results', payload.alpha)
          /\ fused' = fuse_results(given.os, qd, payload.alpha, payload.top_k)
    /\ hits' = fused'
    /\ backend_call' = "returned"
    /\ pc' = "searched"
    /\ UNCHANGED <<payload, reranked, oracle_call, response>>
    /\ UNCHANGED <<kg_vars, store_vars>>

\* what the collection is after a request to Qdrant raised at the given
\* position: as before, or as after the request when the service applied it
\* (all of it, or for the upsert of vector_search.py line 75 a part of the
\* points) and the caller raised all the same: the answer did not arrive, or
\* the print after the request (vector_search.py lines 48, 77) raised
QdrantAfterRaise(stage) ==
    {<<qdrant_exists, qdrant_points>>} \cup
    (CASE stage = "vs_delete" -> {<<FALSE, {}>>}
       [] stage = "vs_create" /\ ~qdrant_exists -> {<<TRUE, {}>>}
       [] stage = "vs_ready" /\ qdrant_exists ->
              {<<TRUE, qdrant_points \cup part>> : part \in SUBSET DocIds(ingest_file.clauses)}
       [] OTHER -> {})

\* the lexical hits already fetched answered when a backend raised
OnBackendErrorPartial(p, os) == OkResponse(p, FALSE, Take(os, p.top_k))

\* lines 23-24: what the handler answers when run_hybrid_search raised
OnBackendError(p, os) == ErrorResponse("Hybrid search failed")

\* lines 23-24 with hybrid_search.py 53-59: a request to the lexical backend
\* raised before the vector backend was called, or a request to the vector
\* backend raised (one of VectorStore.__init__ or the query) with the
\* formatted lexical hits already in hybrid_search's local os_formatted
HybridSearchRaises ==
    /\ \/ /\ pc = "lexical_search"
          /\ backend_call' = "lexical_raised"
          /\ UNCHANGED <<qdrant_exists, qdrant_points>>
       \/ /\ pc \in VectorStages
          /\ backend_call' = "vector_raised"
          /\ \E after \in QdrantAfterRaise(pc) :
                /\ qdrant_exists' = after[1]
                /\ qdrant_points' = after[2]
    /\ response' = OnBackendError(payload, given.os)
    /\ pc' = "done"
    /\ UNCHANGED <<payload, given, os_results, qdrant_results, combined, fused,
                   hits, reranked, oracle_call>>
    /\ UNCHANGED <<kg_vars, os_exists, os_index>>

\* vector_search.py line 43, sent by another request (an /ask or an /ingest
\* running at the same time)
OtherCreatesCollection ==
    /\ ~qdrant_exists
    /\ qdrant_exists' = TRUE
    /\ qdrant_points' = {}
    /\ UNCHANGED <<pc, payload, response, search_vars, kg_vars, os_exists, os_index>>

\* vector_search.py line 41, sent by another request
OtherDeletesCollection ==
    /\ qdrant_exists
    /\ qdrant_exists' = FALSE
    /\ qdrant_points' = {}
    /\ UNCHANGED <<pc, payload, response, search_vars, kg_vars, os_exists, os_index>>

\* vector_search.py line 75, sent by an /ingest running at the same time
OtherUpserts(ids) ==
    /\ qdrant_exists
    /\ ~(ids \subseteq qdrant_points)
    /\ qdrant_points' = qdrant_points \cup ids
    /\ UNCHANGED <<pc, payload, response, search_vars, kg_vars, os_exists, os_index,
                   qdrant_exists>>

\* lines 26-30, 34-42: the oracle scored every candidate
RerankReturns ==
    /\ pc = "searched"
    /\ RerankRequested(payload)
    /\ \E oracle \in [Texts(hits) -> OracleScores] :
          hits' = rerank(oracle, hits, payload.top_k)
    /\ oracle_call' = "scored"
    /\ reranked' = TRUE
    /\ response' = OkResponse(payload, reranked', hits')
    /\ pc' = "done"
    /\ UNCHANGED <<payload, given, os_results, qdrant_results, combined, fused,
                   backend_call>>
    /\ UNCHANGED <<kg_vars, store_vars>>

\* lines 31-32: the oracle (tokenizer or model) raised
RerankRaises ==
    /\ pc = "searched"
    /\ RerankRequested(payload)
    /\ oracle_call' = "raised"
    /\ response' = OnRerankError(payload, reranked, hits)
    /\ pc' = "done"
    /\ UNCHANGED <<payload, given, os_results, qdrant_results, combined, fused,
                   hits, reranked, backend_call>>
    /\ UNCHANGED <<kg_vars, store_vars>>

\* lines 26-27, 34-42: rerank was not requested
RespondUnreranked ==
    /\ pc = "searched"
    /\ ~RerankRequested(payload)
    /\ response' = OkResponse(payload, reranked, hits)
    /\ pc' = "done"
    /\ UNCHANGED <<payload, given, os_results, qdrant_results, combined, fused,
                   hits, reranked, oracle_call, backend_call>>
    /\ UNCHANGED <<kg_vars, store_vars>>

Next ==
    \/ Receive
    \/ Reject
    \/ LexicalSearchReturns
    \/ VectorStoreExists
    \/ VectorStoreExistsAgain
    \/ VectorStoreDeletes
    \/ VectorStoreCreates
    \/ HybridSearchReturns
    \/ HybridSearchRaises
    \/ OtherCreatesCollection
    \/ OtherDeletesCollection
    \/ OtherUpserts(AskDocs)
    \/ RerankReturns
    \/ RerankRaises
    \/ RespondUnreranked

Spec == Init /\ [][Next]_vars

-----------------------------------------------------------------------------
(* Two concurrent /ask requests.  The handler is a plain def, which the       *)
(* framework runs on a worker thread per request; every variable holds one    *)
(* value per request, the steps of the two requests interleave freely.        *)

Reqs == {1, 2}

\* what the backends hold for the two queries: a lexical list of contract c1
\* with two different scores, a vector list that shares clause_id k1
TwoLexHits == {LexHit("c1", "k1", 0), LexHit("c1", "k2", 1)}
TwoVecHits == {VecHit("c1", "k1", 1), VecHit("c2", "k1", 0)}

TwoLists(H) == UNION {ListsOfLen(H, m) : m \in 0..MaxTwoHits}

TwoPayloads == [top_k : {1, MaxTopK}, alpha : {Half}, rerank : BOOLEAN]

\* reranker.py lines 8-9, 25-35: the module-level tokenizer and model, shared
\* by all requests and only read; the logit depends on the query q and the text
QueryLogits(q) ==
    [t \in {"t11", "t12", "t21", "t22"} |->
        IF (t \in {"t11", "t22"}) = (q = 1) THEN 1 ELSE -1]

\* one merge map kept between calls: request r goes on with the map the other
\* request has filled
SharedCombined(maps, r) == maps[CHOOSE q \in Reqs : q # r]

\* hybrid_search.py line 23: combined = {}, a new dict in every call
NewCombined(maps, r) == <<>>

\* both requests have entered hybrid_search; the index holds the lexical
\* hits, the collection is missing, empty or holds the vector hits
TwoInit ==
    /\ pc = [r \in Reqs |-> "lexical_search"]
    /\ payload \in [Reqs -> TwoPayloads]
    /\ given = [r \in Reqs |-> NoGiven]
    /\ os_results = [r \in Reqs |-> <<>>]
    /\ qdrant_results = [r \in Reqs |-> <<>>]
    /\ combined = [r \in Reqs |-> <<>>]
    /\ fused = [r \in Reqs |-> <<>>]
    /\ hits = [r \in Reqs |-> <<>>]
    /\ reranked = [r \in Reqs |-> FALSE]
    /\ oracle_call = [r \in Reqs |-> "none"]
    /\ backend_call = [r \in Reqs |-> "none"]
    /\ response = [r \in Reqs |-> NoResponse]
    /\ NoGraph
    /\ os_exists = TRUE
    /\ os_index = {DocId(h) : h \in TwoLexHits}
    /\ qdrant_exists \in BOOLEAN
    /\ qdrant_points \in (IF qdrant_exists THEN {{}, {DocId(h) : h \in TwoVecHits}} ELSE {{}})

\* hybrid_search.py lines 53-55: the lexical backend answers request r; the
\* formatter builds new dicts for every call
TwoLexical(r) ==
    /\ pc[r] = "lexical_search"
    /\ os_exists
    /\ \E os \in TwoLists(TwoLexHits) :
          /\ DocIds(os) \subseteq os_index
          /\ given' = [given EXCEPT ![r] = [os |-> os, qd |-> <<>>]]
          /\ os_results' = [os_results EXCEPT ![r] = os]
    /\ pc' = [pc EXCEPT ![r] = "vs_exists"]
    /\ UNCHANGED <<payload, qdrant_results, combined, fused, hits, reranked,
                   oracle_call, backend_call, response>>
    /\ UNCHANGED <<kg_vars, store_vars>>

\* vector_search.py line 39 in request r, reset=False
TwoVectorStoreExists(r) ==
    /\ pc[r] = "vs_exists"
    /\ pc' = [pc EXCEPT ![r] = IF ~qdrant_exists THEN "vs_exists_again" ELSE "vs_ready"]
    /\ UNCHANGED <<payload, response, search_vars, kg_vars, store_vars>>

\* vector_search.py line 40 in request r
TwoVectorStoreExistsAgain(r) ==
    /\ pc[r] = "vs_exists_again"
    /\ pc' = [pc EXCEPT ![r] = IF qdrant_exists THEN "vs_delete" ELSE "vs_create"]
    /\ UNCHANGED <<payload, response, search_vars, kg_vars, store_vars>>

\* vector_search.py line 41 in request r
TwoVectorStoreDeletes(r) ==
    /\ pc[r] = "vs_delete"
    /\ qdrant_exists' = FALSE
    /\ qdrant_points' = {}
    /\ pc' = [pc EXCEPT ![r] = "vs_create"]
    /\ UNCHANGED <<payload, response, search_vars, kg_vars, os_exists, os_index>>

\* vector_search.py lines 43-47 in request r
TwoVectorStoreCreates(r) ==
    /\ pc[r] = "vs_create"
    /\ ~qdrant_exists
    /\ qdrant_exists' = TRUE
    /\ qdrant_points' = {}
    /\ pc' = [pc EXCEPT ![r] = "vs_ready"]
    /\ UNCHANGED <<payload, response, search_vars, kg_vars, os_exists, os_index>>

\* hybrid_search.py lines 58-59: the vector backend answers request r from the
\* points the collection holds
TwoSearch(r) ==
    /\ pc[r] = "vs_ready"
    /\ qdrant_exists
    /\ \E qd \in TwoLists(TwoVecHits) :
          /\ DocIds(qd) \subseteq qdrant_points
          /\ given' = [given EXCEPT ![r] = [os |-> given[r].os, qd |-> qd]]
          /\ qdrant_results' = [qdrant_results EXCEPT ![r] = qd]
    /\ backend_call' = [backend_call EXCEPT ![r] = "returned"]
    /\ pc' = [pc EXCEPT ![r] = "normalize"]
    /\ UNCHANGED <<payload, os_results, combined, fused, hits, reranked, oracle_call,
                   response>>
    /\ UNCHANGED <<kg_vars, store_vars>>

\* ask.py lines 23-24: a request of hybrid_search raised in request r: the
\* lexical search, or a request to Qdrant, among them the create_collection
\* Qdrant refuses because the collection exists by now and the query_points it
\* refuses because the collection is gone by now
TwoSearchRaises(r) ==
    /\ \/ /\ pc[r] = "lexical_search"
          /\ backend_call' = [backend_call EXCEPT ![r] = "lexical_raised"]
          /\ UNCHANGED <<qdrant_exists, qdrant_points>>
       \/ /\ pc[r] \in VectorStages
          /\ backend_call' = [backend_call EXCEPT ![r] = "vector_raised"]
          /\ \E after \in QdrantAfterRaise(pc[r]) :
                /\ qdrant_exists' = after[1]
                /\ qdrant_points' = after[2]
    /\ response' = [response EXCEPT ![r] = OnBackendError(payload[r], given[r].os)]
    /\ pc' = [pc EXCEPT ![r] = "done"]
    /\ UNCHANGED <<payload, given, os_results, qdrant_results, combined, fused, hits,
                   reranked, oracle_call>>
    /\ UNCHANGED <<kg_vars, os_exists, os_index>>

\* hybrid_search.py lines 21-23: min and max over the call's own lists, then a
\* new merge map
TwoNormalize(r) ==
    /\ pc[r] = "normalize"
    /\ os_results' = [os_results EXCEPT ![r] = normalize_scores(os_results[r])]
    /\ qdrant_results' = [qdrant_results EXCEPT ![r] = normalize_scores(qdrant_results[r])]
    /\ combined' = [combined EXCEPT ![r] = NewCombined(combined, r)]
    /\ pc' = [pc EXCEPT ![r] = "seed"]
    /\ UNCHANGED <<payload, given, fused, hits, reranked, oracle_call, backend_call,
                   response>>
    /\ UNCHANGED <<kg_vars, store_vars>>

\* hybrid_search.py lines 26-30
TwoSeed(r) ==
    /\ pc[r] = "seed"
    /\ combined' = [combined EXCEPT ![r] = InsertBM25(combined[r], os_results[r])]
    /\ pc' = [pc EXCEPT ![r] = "merge"]
    /\ UNCHANGED <<payload, given, os_results, qdrant_results, fused, hits, reranked,
                   oracle_call, backend_call, response>>
    /\ UNCHANGED <<kg_vars, store_vars>>

\* hybrid_search.py lines 33-42
TwoMerge(r) ==
    /\ pc[r] = "merge"
    /\ combined' = [combined EXCEPT ![r] = MergeQdrant(combined[r], qdrant_results[r])]
    /\ pc' = [pc EXCEPT ![r] = "rank"]
    /\ UNCHANGED <<payload, given, os_results, qdrant_results, fused, hits, reranked,
                   oracle_call, backend_call, response>>
    /\ UNCHANGED <<kg_vars, store_vars>>

\* hybrid_search.py lines 45-49, ask.py line 20
TwoRank(r) ==
    /\ pc[r] = "rank"
    /\ combined' = [combined EXCEPT ![r] = WithHybrid(combined[r], payload[r].alpha)]
    /\ fused' = [fused EXCEPT ![r] = Rank_TopK(combined'[r], payload[r].top_k)]
    /\ hits' = [hits EXCEPT ![r] = fused'[r]]
    /\ pc' = [pc EXCEPT ![r] = "searched"]
    /\ UNCHANGED <<payload, given, os_results, qdrant_results, reranked, oracle_call,
                   backend_call, response>>
    /\ UNCHANGED <<kg_vars, store_vars>>

\* ask.py lines 27-30, 34-42: run_rerank returned the request's own candidates
\* with their scores; reranker.py lines 19-35 hand the batch of candidates to
\* the tokenizer and the model, which take no empty batch
TwoRerankReturns(r) ==
    /\ pc[r] = "searched"
    /\ RerankRequested(payload[r])
    /\ hits[r] # <<>>
    /\ hits' = [hits EXCEPT ![r] = rerank(QueryLogits(r), hits[r], payload[r].top_k)]
    /\ reranked' = [reranked EXCEPT ![r] = TRUE]
    /\ oracle_call' = [oracle_call EXCEPT ![r] = "scored"]
    /\ response' = [response EXCEPT ![r] = OkResponse(payload[r], TRUE, hits'[r])]
    /\ pc' = [pc EXCEPT ![r] = "done"]
    /\ UNCHANGED <<payload, given, os_results, qdrant_results, combined, fused,
                   backend_call>>
    /\ UNCHANGED <<kg_vars, store_vars>>

\* ask.py lines 31-32: run_rerank raised in request r (on an empty candidate
\* list it has no guard, and the tokenizer or the model may raise on any)
TwoRerankRaises(r) ==
    /\ pc[r] = "searched"
    /\ RerankRequested(payload[r])
    /\ oracle_call' = [oracle_call EXCEPT ![r] = "raised"]
    /\ response' = [response EXCEPT ![r] =
                        OnRerankError(payload[r], reranked[r], hits[r])]
    /\ pc' = [pc EXCEPT ![r] = "done"]
    /\ UNCHANGED <<payload, given, os_results, qdrant_results, combined, fused, hits,
                   reranked, backend_call>>
    /\ UNCHANGED <<kg_vars, store_vars>>

\* ask.py lines 26-27, 34-42: rerank was not requested
TwoRespondUnreranked(r) ==
    /\ pc[r] = "searched"
    /\ ~RerankRequested(payload[r])
    /\ response' = [response EXCEPT ![r] = OkResponse(payload[r], reranked[r], hits[r])]
    /\ pc' = [pc EXCEPT ![r] = "done"]
    /\ UNCHANGED <<payload, given, os_results, qdrant_results, combined, fused, hits,
                   reranked, oracle_call, backend_call>>
    /\ UNCHANGED <<kg_vars, store_vars>>

TwoNext ==
    \E r \in Reqs :
        \/ TwoLexical(r)
        \/ TwoVectorStoreExists(r)
        \/ TwoVectorStoreExistsAgain(r)
        \/ TwoVectorStoreDeletes(r)
        \/ TwoVectorStoreCreates(r)
        \/ TwoSearch(r)
        \/ TwoSearchRaises(r)
        \/ TwoNormalize(r)
        \/ TwoSeed(r)
        \/ TwoMerge(r)
        \/ TwoRank(r)
        \/ TwoRerankReturns(r)
        \/ TwoRerankRaises(r)
        \/ TwoRespondUnreranked(r)

SpecTwo == TwoInit /\ [][TwoNext]_vars

-----------------------------------------------------------------------------
(* kg.py: the knowledge graph builder *)

\* Python's str.strip() on the names and texts of the model
Strip(t) == IF t = "A " THEN "A" ELSE t

\* Python's len() on the obligation texts of the model
StrLen(t) ==
    CASE t = "" -> 0
      [] t = "pay" -> 3
      [] t = "shall pay" -> 9
      [] OTHER -> 1

\* Python's truth value of a string or of None
Falsy(t) == t = "" \/ t = None

\* lines 43-46: _sid(kind, value), a digest of kind and value; two different
\* (kind, value) pairs get two different ids
_sid(kind, value) == <<kind, value>>

\* lines 49-67: the text a node of this kind is deduplicated by
node_key(kind, props) ==
    CASE kind = "Contract" -> _sid(kind, props.contract_id)
      [] kind = "Clause" -> _sid(kind, <<props.contract_id, props.clause_id>>)
      [] kind = "Party" -> _sid(kind, Strip(props.name))
      [] kind = "Obligation" -> _sid(kind, Strip(props.text))
      [] kind = "Amount" -> _sid(kind, <<props.value, props.currency, props.unit, props.raw>>)
      [] kind \in {"Date", "Reference"} -> _sid(kind, Strip(props.text))
      [] OTHER -> _sid(kind, props)

HasId(dict, id) == \E i \in 1..Len(dict) : dict[i].id = id

\* the record of an id already present replaced by the new one
add_node_overwriting(ns, kind, props) ==
    LET nid == node_key(kind, props)
        rec == [id |-> nid, type |-> kind, props |-> props]
    IN  IF HasId(ns, nid)
        THEN [i \in 1..Len(ns) |-> IF ns[i].id = nid THEN rec ELSE ns[i]]
        ELSE Append(ns, rec)

\* lines 70-74: add_node; the id is node_key(kind, props)
add_node(ns, kind, props) ==
    LET nid == node_key(kind, props)
    IN  IF HasId(ns, nid) THEN ns
        ELSE Append(ns, [id |-> nid, type |-> kind, props |-> props])

\* lines 77-81: add_edge, called without props everywhere in build_kg
add_edge(es, etype, src, dst) ==
    LET eid == _sid(etype, <<src, dst>>)
    IN  IF HasId(es, eid) THEN es
        ELSE Append(es, [id |-> eid, type |-> etype, src |-> src, dst |-> dst])

\* one node of the given kind per element of items, each linked from the clause
RECURSIVE AddLinked(_, _, _, _, _)
AddLinked(g, kind, etype, n_clause, items) ==
    IF items = <<>> THEN g
    ELSE AddLinked([nodes |-> add_node(g.nodes, kind, Head(items)),
                    edges |-> add_edge(g.edges, etype, n_clause, node_key(kind, Head(items)))],
                   kind, etype, n_clause, Tail(items))

\* lines 121-125: the Party nodes of a clause and its MENTIONS_PARTY edges
RECURSIVE AddParties(_, _, _)
AddParties(g, n_clause, ps) ==
    IF ps = <<>> THEN g
    ELSE IF Falsy(Head(ps)) THEN AddParties(g, n_clause, Tail(ps))
    ELSE AddParties(
             [nodes |-> add_node(g.nodes, "Party", [name |-> Head(ps)]),
              edges |-> add_edge(g.edges, "MENTIONS_PARTY", n_clause,
                                 node_key("Party", [name |-> Head(ps)]))],
             n_clause, Tail(ps))

\* line 134: the ids of all Party nodes the nodes dict holds at this moment,
\* in insertion order
PartyIds(ns) ==
    LET ps == SelectSeq(ns, LAMBDA n : n.type = "Party")
    IN  [i \in 1..Len(ps) |-> ps[i].id]

\* lines 135-137
RECURSIVE AddObligates(_, _, _)
AddObligates(es, pids, n_ob) ==
    IF pids = <<>> THEN es
    ELSE AddObligates(add_edge(es, "OBLIGATES", Head(pids), n_ob), Tail(pids), n_ob)

\* lines 128-138: the Obligation nodes of a clause with their OBLIGATES and
\* DEFINED_IN edges
RECURSIVE AddObligations(_, _, _)
AddObligations(g, n_clause, obs) ==
    IF obs = <<>> THEN g
    ELSE IF Falsy(Head(obs)) \/ StrLen(Head(obs)) < 5
         THEN AddObligations(g, n_clause, Tail(obs))
    ELSE LET props == [text |-> Head(obs)]
             n_ob == node_key("Obligation", props)
             ns == add_node(g.nodes, "Obligation", props)
             es == AddObligates(g.edges, PartyIds(ns), n_ob)
         IN  AddObligations(
                 [nodes |-> ns, edges |-> add_edge(es, "DEFINED_IN", n_ob, n_clause)],
                 n_clause, Tail(obs))

\* line 92: c.get("contract_id") or "contract"
ContractIdOf(c) == IF Falsy(c.contract_id) THEN "contract" ELSE c.contract_id

\* lines 92-160: one turn of the loop over the clauses; page, line_start and
\* line_end travel with the Clause node as heading does
AddClause(g, c) ==
    LET contract == [contract_id |-> ContractIdOf(c)]
        clause == [contract_id |-> ContractIdOf(c), clause_id |-> c.clause_id,
                   heading |-> c.heading]
        n_contract == node_key("Contract", contract)
        n_clause == node_key("Clause", clause)
        g1 == [nodes |-> add_node(add_node(g.nodes, "Contract", contract), "Clause", clause),
               edges |-> add_edge(g.edges, "CONTAINS", n_contract, n_clause)]
        g2 == AddParties(g1, n_clause, c.parties)
        g3 == AddObligations(g2, n_clause, c.obligations)
        g4 == AddLinked(g3, "Amount", "HAS_AMOUNT", n_clause, c.amounts)
        g5 == AddLinked(g4, "Date", "HAS_DATE", n_clause, c.dates)
    IN  AddLinked(g5, "Reference", "REFERENCES", n_clause, c.references)

RECURSIVE BuildFrom(_, _)
BuildFrom(g, cs) == IF cs = <<>> THEN g ELSE BuildFrom(AddClause(g, Head(cs)), Tail(cs))

\* the dicts kept between calls: a call goes on with what the call before it
\* left in them
KeptGraph(prev) == prev

\* lines 87-88: nodes = {} and edges = {}, new dicts in every call, whatever
\* the call before it left
NewGraph(prev) == [nodes |-> <<>>, edges |-> <<>>]

\* lines 86-162: build_kg(clauses), called where the graph of the call before
\* it (none before the first) is held by nodes and edges
build_kg(cs) == BuildFrom(NewGraph([nodes |-> nodes, edges |-> edges]), cs)

\* IE-enriched clause records as ie.py writes them
PartyLists == {<<>>, <<"A">>, <<"A ", "B">>, <<"", "B">>}
ObligationLists == {<<>>, <<"shall pay">>, <<"pay">>}

NoExtras == [amounts |-> <<>>, dates |-> <<>>, references |-> <<>>]
SomeExtras ==
    [amounts |-> <<[value |-> 5, currency |-> "USD", unit |-> None, raw |-> "$5"]>>,
     dates |-> <<[text |-> "1 May"]>>,
     references |-> <<[text |-> "Section 2"]>>]

KGClauses ==
    {[contract_id |-> "c1", clause_id |-> k, heading |-> "Heading",
      parties |-> ps, obligations |-> obs,
      amounts |-> x.amounts, dates |-> x.dates, references |-> x.references] :
        k \in ClauseIds, ps \in PartyLists, obs \in ObligationLists,
        x \in {NoExtras, SomeExtras}}

KGInit ==
    /\ pc = "kg_call"
    /\ clauses \in SeqsUpTo(KGClauses, MaxClauses)
    /\ nodes = <<>>
    /\ edges = <<>>
    /\ ingest_file = NoFile
    /\ os_exists = FALSE
    /\ os_index = {}
    /\ qdrant_exists = FALSE
    /\ qdrant_points = {}
    /\ payload = NoPayload
    /\ given = NoGiven
    /\ os_results = <<>>
    /\ qdrant_results = <<>>
    /\ combined = <<>>
    /\ fused = <<>>
    /\ hits = <<>>
    /\ reranked = FALSE
    /\ oracle_call = "none"
    /\ backend_call = "none"
    /\ response = NoResponse

\* nodes, edges = build_kg(clauses)
KGBuild ==
    /\ pc = "kg_call"
    /\ nodes' = build_kg(clauses).nodes
    /\ edges' = build_kg(clauses).edges
    /\ pc' = "kg_done"
    /\ UNCHANGED <<payload, response, clauses, ingest_file, search_vars, store_vars>>

\* a second run of build_kg on the same clause list
KGBuildAgain ==
    /\ pc = "kg_done"
    /\ nodes' = build_kg(clauses).nodes
    /\ edges' = build_kg(clauses).edges
    /\ pc' = "kg_again"
    /\ UNCHANGED <<payload, response, clauses, ingest_file, search_vars, store_vars>>

KGNext == KGBuild \/ KGBuildAgain

SpecKG == KGInit /\ [][KGNext]_vars

-----------------------------------------------------------------------------
(* routers/ingest.py and services/ingestion.py: the /ingest operation *)

\* what json_path can name: no file, bytes that are not UTF-8, text that is
\* not JSON, a JSON number, or a JSON list of clauses
FileKinds == {"missing", "undecodable", "malformed", "scalar"}
IngestClauses == {[contract_id |-> "c1", clause_id |-> k] : k \in ClauseIds}
Files ==
    {[kind |-> k, clauses |-> <<>>] : k \in FileKinds}
        \cup {[kind |-> "list", clauses |-> cs] : cs \in SeqsUpTo(IngestClauses, MaxClauses)}

\* schemas.py IngestRequest
IngestPayloads == [json_path : Files, reset : BOOLEAN, index_name : {"contracts"}]

\* line 41: clause_count = len(clauses)
clause_count(cs) == Len(cs)

\* lines 51-57
IngestResponse(p, n) ==
    [status |-> 200, indexed |-> n, index_name |-> p.index_name,
     qdrant_collection |-> p.index_name, reset |-> p.reset]

\* the documents the clause files can put into the stores
IngestDocs == {DocId(c) : c \in IngestClauses}

IngestInit ==
    /\ pc = "ingest_call"
    /\ payload \in IngestPayloads
    /\ os_exists \in BOOLEAN
    /\ os_index \in (IF os_exists THEN SUBSET IngestDocs ELSE {{}})
    /\ qdrant_exists \in BOOLEAN
    /\ qdrant_points \in (IF qdrant_exists THEN SUBSET IngestDocs ELSE {{}})
    /\ NoGraph
    /\ given = NoGiven
    /\ os_results = <<>>
    /\ qdrant_results = <<>>
    /\ combined = <<>>
    /\ fused = <<>>
    /\ hits = <<>>
    /\ reranked = FALSE
    /\ oracle_call = "none"
    /\ backend_call = "none"
    /\ response = NoResponse

\* lines 26-30
IngestNotFound ==
    /\ pc = "ingest_call"
    /\ payload.json_path.kind = "missing"
    /\ response' = [status |-> 404, detail |-> "Clause JSON not found"]
    /\ pc' = "ingest_done"
    /\ UNCHANGED <<payload, search_vars, kg_vars, store_vars>>

\* lines 32-39: json.load raises JSONDecodeError
IngestInvalidJSON ==
    /\ pc = "ingest_call"
    /\ payload.json_path.kind = "malformed"
    /\ response' = [status |-> 400, detail |-> "Invalid JSON payload"]
    /\ pc' = "ingest_done"
    /\ UNCHANGED <<payload, search_vars, kg_vars, store_vars>>

\* line 34: reading the file raises UnicodeDecodeError, which is no
\* JSONDecodeError; no handler catches it and the framework answers 500
IngestUndecodable ==
    /\ pc = "ingest_call"
    /\ payload.json_path.kind = "undecodable"
    /\ response' = ErrorResponse("Internal Server Error")
    /\ pc' = "ingest_done"
    /\ UNCHANGED <<payload, search_vars, kg_vars, store_vars>>

\* line 41: len() of a number raises TypeError outside any try
IngestNoLength ==
    /\ pc = "ingest_call"
    /\ payload.json_path.kind = "scalar"
    /\ response' = ErrorResponse("Internal Server Error")
    /\ pc' = "ingest_done"
    /\ UNCHANGED <<payload, search_vars, kg_vars, store_vars>>

\* lines 33-34, 41: the file holds a list of clauses
IngestLoad ==
    /\ pc = "ingest_call"
    /\ payload.json_path.kind = "list"
    /\ clauses' = payload.json_path.clauses
    /\ pc' = "run_ingest"
    /\ UNCHANGED <<payload, response, nodes, edges, ingest_file, search_vars, store_vars>>

\* ingestion.py lines 10-11: the run reads the file a second time, as it is
\* by then; a file that cannot be loaded makes the run raise
RunIngestReads ==
    /\ pc = "run_ingest"
    /\ \E f \in Files :
          /\ f.kind \in {"list", "scalar"}
          /\ ingest_file' = f
    /\ pc' = "create_index"
    /\ UNCHANGED <<payload, response, clauses, nodes, edges, search_vars, store_vars>>

\* retrieval.py line 54: if not client.indices.exists(...), reached from
\* ingestion.py line 15 (at "create_index") and from bulk_index, retrieval.py
\* line 88 (at "bulk_create_index")
CreateIndexExists ==
    /\ \/ /\ pc = "create_index"
          /\ pc' = IF os_exists THEN "bulk_index" ELSE "create_index_create"
       \/ /\ pc = "bulk_create_index"
          /\ pc' = IF os_exists THEN "bulk" ELSE "bulk_create_index_create"
    /\ UNCHANGED <<payload, response, search_vars, kg_vars, store_vars>>

\* retrieval.py lines 55-74: client.indices.create(...); OpenSearch refuses to
\* create an index that exists
CreateIndexCreates ==
    /\ ~os_exists
    /\ \/ /\ pc = "create_index_create"
          /\ pc' = "bulk_index"
       \/ /\ pc = "bulk_create_index_create"
          /\ pc' = "bulk"
    /\ os_exists' = TRUE
    /\ os_index' = {}
    /\ UNCHANGED <<payload, response, search_vars, kg_vars, qdrant_exists, qdrant_points>>

\* retrieval.py lines 83-84: if reset: if client.indices.exists(...)
BulkIndexResets ==
    /\ pc = "bulk_index"
    /\ pc' = IF ~payload.reset THEN "bulk"
             ELSE IF os_exists THEN "bulk_delete" ELSE "bulk_create_index"
    /\ UNCHANGED <<payload, response, search_vars, kg_vars, store_vars>>

\* retrieval.py line 85: client.indices.delete(...); OpenSearch refuses to
\* delete an index that is missing
BulkIndexDeletes ==
    /\ pc = "bulk_delete"
    /\ os_exists
    /\ os_exists' = FALSE
    /\ os_index' = {}
    /\ pc' = "bulk_create_index"
    /\ UNCHANGED <<payload, response, search_vars, kg_vars, qdrant_exists, qdrant_points>>

\* retrieval.py lines 92-101: one action per clause of the file the run read,
\* keyed by contract_id#clause_id, sent by helpers.bulk (which sends nothing
\* for no action and lets OpenSearch create a missing index)
BulkIndexBulk ==
    /\ pc = "bulk"
    /\ ingest_file.kind = "list"
    /\ os_index' = os_index \cup DocIds(ingest_file.clauses)
    /\ os_exists' = (os_exists \/ ingest_file.clauses # <<>>)
    /\ pc' = "vs_exists"
    /\ UNCHANGED <<payload, response, search_vars, kg_vars, qdrant_exists, qdrant_points>>

\* vector_search.py lines 64-77 returning (one upsert of all points, none for
\* an empty list), ingestion.py lines 20-22, ingest.py lines 51-57
RunIngestReturns ==
    /\ pc = "vs_ready"
    /\ ingest_file.clauses # <<>> => qdrant_exists
    /\ qdrant_points' = qdrant_points \cup DocIds(ingest_file.clauses)
    /\ backend_call' = "returned"
    /\ response' = IngestResponse(payload, clause_count(clauses))
    /\ pc' = "ingest_done"
    /\ UNCHANGED <<payload, kg_vars, os_exists, os_index, qdrant_exists, given,
                   os_results, qdrant_results, combined, fused, hits, reranked,
                   oracle_call>>

\* the positions of ingestion.ingest up to the end of bulk_index
OpenSearchStages ==
    {"create_index", "create_index_create", "bulk_index", "bulk_delete",
     "bulk_create_index", "bulk_create_index_create", "bulk"}

\* what the index is after a request to OpenSearch raised at the given
\* position: as before, or as after the request when the service applied it
\* (for helpers.bulk any part of the documents) and the caller raised all the
\* same; line 92 raises before anything is sent on a file that holds no list
OpenSearchAfterRaise(stage) ==
    {<<os_exists, os_index>>} \cup
    (CASE stage \in {"create_index_create", "bulk_create_index_create"} /\ ~os_exists ->
              {<<TRUE, {}>>}
       [] stage = "bulk_delete" /\ os_exists -> {<<FALSE, {}>>}
       [] stage = "bulk" /\ ingest_file.kind = "list" ->
              {<<os_exists \/ part # {}, os_index \cup part>> :
                  part \in SUBSET DocIds(ingest_file.clauses)}
       [] OTHER -> {})

\* ingest.py lines 45-49: the run raised: while it read the file, in a
\* request to OpenSearch or in a request to Qdrant (or right after it)
RunIngestRaises ==
    /\ \/ /\ pc = "run_ingest"
          /\ backend_call' = "read_raised"
          /\ UNCHANGED store_vars
       \/ /\ pc \in OpenSearchStages
          /\ backend_call' = "opensearch_raised"
          /\ \E after \in OpenSearchAfterRaise(pc) :
                /\ os_exists' = after[1]
                /\ os_index' = after[2]
          /\ UNCHANGED <<qdrant_exists, qdrant_points>>
       \/ /\ pc \in VectorStages
          /\ backend_call' = "qdrant_raised"
          /\ \E after \in QdrantAfterRaise(pc) :
                /\ qdrant_exists' = after[1]
                /\ qdrant_points' = after[2]
          /\ UNCHANGED <<os_exists, os_index>>
    /\ response' = ErrorResponse("Ingestion failed")
    /\ pc' = "ingest_done"
    /\ UNCHANGED <<payload, kg_vars, given, os_results, qdrant_results, combined,
                   fused, hits, reranked, oracle_call>>

\* retrieval.py line 55, sent by another /ingest running at the same time
OtherCreatesIndex ==
    /\ ~os_exists
    /\ os_exists' = TRUE
    /\ os_index' = {}
    /\ UNCHANGED <<pc, payload, response, search_vars, kg_vars, qdrant_exists,
                   qdrant_points>>

\* retrieval.py line 85, sent by another /ingest
OtherDeletesIndex ==
    /\ os_exists
    /\ os_exists' = FALSE
    /\ os_index' = {}
    /\ UNCHANGED <<pc, payload, response, search_vars, kg_vars, qdrant_exists,
                   qdrant_points>>

\* retrieval.py line 101, sent by another /ingest
OtherBulk(ids) ==
    /\ ~(os_exists /\ ids \subseteq os_index)
    /\ os_exists' = TRUE
    /\ os_index' = os_index \cup ids
    /\ UNCHANGED <<pc, payload, response, search_vars, kg_vars, qdrant_exists,
                   qdrant_points>>

IngestNext ==
    \/ IngestNotFound
    \/ IngestInvalidJSON
    \/ IngestUndecodable
    \/ IngestNoLength
    \/ IngestLoad
    \/ RunIngestReads
    \/ CreateIndexExists
    \/ CreateIndexCreates
    \/ BulkIndexResets
    \/ BulkIndexDeletes
    \/ BulkIndexBulk
    \/ VectorStoreExists
    \/ VectorStoreExistsAgain
    \/ VectorStoreDeletes
    \/ VectorStoreCreates
    \/ RunIngestReturns
    \/ RunIngestRaises
    \/ OtherCreatesIndex
    \/ OtherDeletesIndex
    \/ \E ids \in SUBSET IngestDocs \ {{}} : OtherBulk(ids)
    \/ OtherCreatesCollection
    \/ OtherDeletesCollection
    \/ \E ids \in SUBSET IngestDocs \ {{}} : OtherUpserts(ids)

SpecIngest == IngestInit /\ [][IngestNext]_vars

-----------------------------------------------------------------------------
(* Properties of fuse_results, checked under SpecFuse *)

ClausesOf(list) == {ClauseOf(list[i]) : i \in 1..Len(list)}

\* the entries of the merge map that carry the identity of clause p
EntriesFor(map, p) == {i \in 1..Len(map) : ClauseOf(map[i].val) = p}

FuseDone == pc = "fuse_done"

\* C1: two hits with the same clause_id but different contract_id are never
\* merged: each clause keeps an entry of its own in the merge map, carrying
\* only its own backend's normalised score and 0.0 for the other backend.
C1_JoinByContractAndClause ==
    FuseDone =>
        \A i \in 1..Len(os_results), j \in 1..Len(qdrant_results) :
            LET a == os_results[i]
                b == qdrant_results[j]
            IN  (a.clause_id = b.clause_id /\ a.contract_id # b.contract_id) =>
                    /\ ClauseOf(a) \notin ClausesOf(qdrant_results) =>
                          \E x \in EntriesFor(combined, ClauseOf(a)) :
                              /\ combined[x].val.bm25_score = a.norm_score
                              /\ combined[x].val.vec_score = Zero
                    /\ ClauseOf(b) \notin ClausesOf(os_results) =>
                          \E x \in EntriesFor(combined, ClauseOf(b)) :
                              /\ combined[x].val.bm25_score = Zero
                              /\ combined[x].val.vec_score = b.norm_score

\* C2: fuse_results returns at most top_k hits.
C2_AtMostTopK == FuseDone => Len(fused) <= payload.top_k

\* both lists non-empty without a common clause_id, the lexical list alone
\* longer than top_k, and the result cut to exactly top_k
C2_Witness ==
    /\ FuseDone
    /\ Len(os_results) > payload.top_k
    /\ qdrant_results # <<>>
    /\ {os_results[i].clause_id : i \in 1..Len(os_results)}
         \cap {qdrant_results[i].clause_id : i \in 1..Len(qdrant_results)} = {}
    /\ Len(combined) > payload.top_k
    /\ Len(fused) = payload.top_k

\* the place at which a fused entry's clause was first met: its index in the
\* lexical list, or after the whole lexical list its index in the vector list
EncounterIndex(e) ==
    IF ClauseOf(e) \in ClausesOf(given.os)
    THEN CHOOSE i \in 1..Len(given.os) : ClauseOf(given.os[i]) = ClauseOf(e)
    ELSE Len(given.os)
           + (CHOOSE j \in 1..Len(given.qd) : ClauseOf(given.qd[j]) = ClauseOf(e))

\* C3: the returned list is in non-increasing hybrid_score, and entries with
\* equal hybrid_score appear in encounter order (lexical entries in lexical
\* list order first, then vector-only entries in vector list order).
C3_SortedTiesInEncounterOrder ==
    FuseDone =>
        \A i, j \in 1..Len(fused) :
            i < j =>
                /\ FLeq(fused[j].hybrid_score, fused[i].hybrid_score)
                /\ fused[i].hybrid_score = fused[j].hybrid_score =>
                       EncounterIndex(fused[i]) < EncounterIndex(fused[j])

\* the merge run with the vector list seeding the map and the lexical list
\* joined into it: the same code with the two lists exchanged and the weight
\* complemented, each entry's two backend scores named back
SwapBackends(e) == [bm25_score |-> e.vec_score, vec_score |-> e.bm25_score] @@ e

VectorFirst(os, qd, alpha) ==
    LET m == Combine(qd, os, FSub(One, alpha))
    IN  [i \in 1..Len(m) |-> [key |-> m[i].key, val |-> SwapBackends(m[i].val)]]

ScoresFor(map, p) ==
    {<<map[x].val.bm25_score, map[x].val.vec_score, map[x].val.hybrid_score>> :
        x \in EntriesFor(map, p)}

\* C4: a clause present in both lists receives the same bm25_score, vec_score
\* and hybrid_score whether the map is seeded from the lexical list and joined
\* with the vector list or the other way round.
C4_CommutativeInBackendOrder ==
    FuseDone =>
        \A p \in ClausesOf(os_results) \cap ClausesOf(qdrant_results) :
            ScoresFor(combined, p)
              = ScoresFor(VectorFirst(os_results, qdrant_results, payload.alpha), p)

\* C7: every returned entry has hybrid_score = alpha*bm25_score +
\* (1-alpha)*vec_score with the three scores in [0, 1]; an entry whose clause
\* is only in the lexical list has vec_score 0.0, one whose clause is only in
\* the vector list has bm25_score 0.0.
C7_HybridScoreAndAbsentBackendZero ==
    FuseDone =>
        \A i \in 1..Len(fused) :
            LET e == fused[i]
                a == payload.alpha
            IN  /\ e.hybrid_score
                     = FAdd(FMul(a, e.bm25_score), FMul(FSub(One, a), e.vec_score))
                /\ InUnit(e.bm25_score) /\ InUnit(e.vec_score) /\ InUnit(e.hybrid_score)
                /\ ClauseOf(e) \notin ClausesOf(given.qd) => e.vec_score = Zero
                /\ ClauseOf(e) \notin ClausesOf(given.os) => e.bm25_score = Zero

\* C8: a clause in both lists yields exactly one entry of the merge map, with
\* its lexical normalised score as bm25_score and its vector normalised score
\* as vec_score; when it is the only hit of each list the entry has
\* bm25 = vec = hybrid = 1.0 whatever alpha is.
C8_ClauseInBothListsOneEntry ==
    FuseDone =>
        \A i \in 1..Len(os_results), j \in 1..Len(qdrant_results) :
            ClauseOf(os_results[i]) = ClauseOf(qdrant_results[j]) =>
                /\ Cardinality(EntriesFor(combined, ClauseOf(os_results[i]))) = 1
                /\ \A x \in EntriesFor(combined, ClauseOf(os_results[i])) :
                      /\ combined[x].val.bm25_score = os_results[i].norm_score
                      /\ combined[x].val.vec_score = qdrant_results[j].norm_score
                      /\ (Len(os_results) = 1 /\ Len(qdrant_results) = 1) =>
                            /\ combined[x].val.bm25_score = One
                            /\ combined[x].val.vec_score = One
                            /\ combined[x].val.hybrid_score = One

-----------------------------------------------------------------------------
(* Properties of normalize_scores, checked under SpecNorm *)

NormReturned == pc \in {"norm_done", "norm_raised"}

AllEqual(list) == \A i, j \in 1..Len(list) : list[i].score = list[j].score

\* C5: on a non-empty list whose raw scores are all equal (a single hit
\* included) normalize_scores does not raise and gives every hit exactly 1.0.
C5_UniformScoresGetOne ==
    (NormReturned /\ given.os # <<>> /\ AllEqual(given.os)) =>
        /\ pc = "norm_done"
        /\ Len(os_results) = Len(given.os)
        /\ \A i \in 1..Len(os_results) : os_results[i].norm_score = One

\* several hits with one common raw score, normalised
C5_Witness ==
    /\ pc = "norm_done"
    /\ Len(given.os) >= 2
    /\ AllEqual(given.os)
    /\ \A i \in 1..Len(os_results) : os_results[i].norm_score = One

RawMin(list) == SeqMin(ScoresOf(list))
RawMax(list) == SeqMax(ScoresOf(list))

\* C6: with distinct min and max every raw score s maps to
\* (s - min) / (max - min): the result lies in [0, 1], the maximum maps to
\* 1.0, the minimum to 0.0, and raw_i <= raw_j implies norm_i <= norm_j.
C6_MinMaxRescaling ==
    (NormReturned /\ given.os # <<>> /\ ~AllEqual(given.os)) =>
        /\ pc = "norm_done"
        /\ Len(os_results) = Len(given.os)
        /\ \A i \in 1..Len(os_results) :
              LET r == os_results[i]
                  s == given.os[i].score
              IN  /\ r.norm_score.den > 0
                  /\ r.norm_score.num * (RawMax(given.os) - RawMin(given.os))
                       = (s - RawMin(given.os)) * r.norm_score.den
                  /\ InUnit(r.norm_score)
                  /\ s = RawMax(given.os) => r.norm_score = One
                  /\ s = RawMin(given.os) => r.norm_score = Zero
        /\ \A i, j \in 1..Len(os_results) :
              given.os[i].score <= given.os[j].score =>
                  FLeq(os_results[i].norm_score, os_results[j].norm_score)

\* three distinct raw scores: the middle one lands strictly inside (0, 1)
C6_Witness ==
    /\ pc = "norm_done"
    /\ Len(given.os) = 3
    /\ \E i \in 1..3 :
          /\ FLess(Zero, os_results[i].norm_score)
          /\ FLess(os_results[i].norm_score, One)
    /\ \E i \in 1..3 : os_results[i].norm_score = One
    /\ \E i \in 1..3 : os_results[i].norm_score = Zero

-----------------------------------------------------------------------------
(* Properties of the /ask handler, checked under Spec *)

Answered == pc = "done" /\ response.status = 200

\* where hit r stood in the fused list
FusedIndex(r) == CHOOSE i \in 1..Len(fused) : ClauseOf(fused[i]) = ClauseOf(r)

\* C9: reranking returns a permutation of the fused candidates (the same
\* clauses, the same count), in non-increasing reranker_score, ties in their
\* fused order, also where that contradicts the hybrid_score order.
C9_RerankPermutesFused ==
    (Answered /\ response.reranked) =>
        LET rs == response.results
        IN  /\ Len(rs) = Len(fused)
            /\ \A i \in 1..Len(fused) :
                  Cardinality({j \in 1..Len(rs) : ClauseOf(rs[j]) = ClauseOf(fused[i])}) = 1
            /\ \A i, j \in 1..Len(rs) :
                  i < j =>
                      /\ rs[i].reranker_score >= rs[j].reranker_score
                      /\ rs[i].reranker_score = rs[j].reranker_score =>
                             FusedIndex(rs[i]) < FusedIndex(rs[j])

\* a reranked answer whose first hit fused strictly lower than its second
C9_Witness ==
    /\ Answered /\ response.reranked
    /\ Len(response.results) = 2
    /\ FLess(response.results[1].hybrid_score, response.results[2].hybrid_score)
    /\ response.results[1].reranker_score > response.results[2].reranker_score

HasRerankerScore(r) == "reranker_score" \in DOMAIN r

\* C10: when reranking was requested and the oracle raised, the request ends
\* in HTTP 500 "Reranking failed"; no answer to a rerank request carries the
\* unreranked fused list, and no answer says reranked without every result
\* having a reranker_score.
C10_OracleFailureFailsRequest ==
    /\ (pc = "done" /\ payload.rerank /\ oracle_call = "raised") =>
           response = [status |-> 500, detail |-> "Reranking failed"]
    /\ (Answered /\ payload.rerank) => response.reranked
    /\ (Answered /\ response.reranked) =>
           \A i \in 1..Len(response.results) : HasRerankerScore(response.results[i])

\* the oracle raised on a non-empty candidate list and the request failed
C10_Witness ==
    /\ pc = "done"
    /\ payload.rerank
    /\ oracle_call = "raised"
    /\ fused # <<>>
    /\ response.status = 500

\* C11: when the rerank flag is unset the oracle is never invoked, the answer
\* is exactly the fused list in fused order and says reranked = false; an
\* answer says reranked = true exactly when rerank was requested and the
\* oracle scored the candidates.
C11_RerankFlagGovernsOracle ==
    /\ ~payload.rerank => oracle_call = "none"
    /\ (Answered /\ ~payload.rerank) =>
           /\ response.results = fused
           /\ ~response.reranked
    /\ Answered => (response.reranked <=> (payload.rerank /\ oracle_call = "scored"))

\* an unreranked answer of two fused hits, the oracle untouched
C11_Witness ==
    /\ Answered
    /\ ~payload.rerank
    /\ Len(fused) = 2
    /\ response.results = fused
    /\ oracle_call = "none"
    /\ ~response.reranked

BackendFailed == backend_call \in {"lexical_raised", "vector_raised"}

\* C12: when the lexical or the vector backend fails, the request ends in
\* HTTP 500 "Hybrid search failed" and nothing else: no fused list, no oracle
\* call, no answer built from the backend that succeeded; every 200 answer
\* comes from a search in which both backends returned.
C12_BackendFailureFailsRequest ==
    /\ BackendFailed =>
           /\ pc = "done"
           /\ response = [status |-> 500, detail |-> "Hybrid search failed"]
           /\ fused = <<>> /\ hits = <<>>
           /\ oracle_call = "none"
    /\ response.status = 200 => backend_call = "returned"

\* the vector backend raised after the lexical backend had returned hits
C12_Witness ==
    /\ backend_call = "vector_raised"
    /\ given.os # <<>>
    /\ pc = "done"
    /\ response.status = 500

\* C14: when both backends return empty lists the request answers 200 with an
\* empty result list, whatever top_k, alpha and the rerank flag are.
C14_EmptyBackendsEmptyAnswer ==
    (pc = "done" /\ backend_call = "returned" /\ given.os = <<>> /\ given.qd = <<>>) =>
        /\ response.status = 200
        /\ response.results = <<>>

\* C15: every hit of a reranked answer carries every field it had after
\* fusion (score, bm25_score, vec_score, hybrid_score among them) with the
\* same value; reranker_score is the only field added.
C15_RerankKeepsEarlierScores ==
    (Answered /\ response.reranked) =>
        \A j \in 1..Len(response.results) :
            LET r == response.results[j]
            IN  /\ \E i \in 1..Len(fused) : ClauseOf(fused[i]) = ClauseOf(r)
                /\ DOMAIN r = DOMAIN fused[FusedIndex(r)] \cup {"reranker_score"}
                /\ \A k \in DOMAIN fused[FusedIndex(r)] : r[k] = fused[FusedIndex(r)][k]

\* a reranked answer that moved the second fused hit, found by both backends
\* with different normalised scores, to the front
C15_Witness ==
    /\ Answered /\ response.reranked
    /\ Len(response.results) = 2
    /\ FusedIndex(response.results[1]) = 2
    /\ response.results[1].bm25_score # response.results[1].vec_score
    /\ response.results[1].hybrid_score = fused[2].hybrid_score

\* the ranges the interface promises
InPromisedRange(b) ==
    /\ b.top_k >= 1 /\ b.top_k <= 100
    /\ FLeq(Zero, b.alpha) /\ FLeq(b.alpha, One)

\* C17: a request with top_k outside [1, 100] or alpha outside [0, 1] is
\* rejected with neither backend nor the oracle called; a request inside the
\* ranges, the boundary values included, is not rejected.
C17_OnlyValidRequestsAccepted ==
    /\ (pc # "idle" /\ ~InPromisedRange(payload)) =>
           /\ pc = "done"
           /\ response = RejectResponse
           /\ backend_call = "none" /\ oracle_call = "none"
           /\ given = NoGiven /\ fused = <<>>
    /\ (pc # "idle" /\ InPromisedRange(payload)) => response.status # 422
    /\ (backend_call # "none" \/ oracle_call # "none") => InPromisedRange(payload)

\* top_k one above the cap, alpha on its upper limit: rejected
C17_Witness ==
    /\ pc = "done"
    /\ payload.top_k = 101
    /\ payload.alpha = One
    /\ response.status = 422
    /\ backend_call = "none"

-----------------------------------------------------------------------------
(* Hits without a join key, checked under SpecMalformed *)

HitsGiven == {given.os[i] : i \in 1..Len(given.os)} \cup {given.qd[i] : i \in 1..Len(given.qd)}

\* C13: a call of fuse_results with a hit that lacks its contract_id or its
\* clause_id does not complete: no such hit is merged into an entry of the
\* map or returned in the fused ranking.
C13_MalformedHitFailsMerge ==
    (\E r \in HitsGiven : MissingKey(r)) =>
        /\ ~FuseDone
        /\ \A i \in 1..Len(combined) : ~MissingKey(combined[i].val)
        /\ \A i \in 1..Len(fused) : ~MissingKey(fused[i])

-----------------------------------------------------------------------------
(* Boundary weights and an empty backend, checked under SpecFuse *)

\* the places of the fused list at which clause p stands
PlacesOf(p) == {i \in 1..Len(fused) : ClauseOf(fused[i]) = p}

\* C18: with alpha = 0.0 every entry's hybrid_score equals its vec_score, every
\* entry whose clause is only in the lexical list fuses to 0, and every
\* clause of the vector list is returned ahead of any returned lexical-only
\* entry.
C18_AlphaZeroPureVector ==
    (FuseDone /\ payload.alpha = Zero) =>
        /\ \A i \in 1..Len(combined) :
              combined[i].val.hybrid_score = combined[i].val.vec_score
        /\ \A i \in 1..Len(combined) :
              ClauseOf(combined[i].val) \notin ClausesOf(given.qd) =>
                  combined[i].val.hybrid_score = Zero
        /\ \A i \in 1..Len(fused) :
              ClauseOf(fused[i]) \notin ClausesOf(given.qd) =>
                  \A p \in ClausesOf(given.qd) : \E j \in PlacesOf(p) : j < i

\* C19: with alpha = 1.0 every entry's hybrid_score equals its bm25_score,
\* every entry whose clause is only in the vector list fuses to 0, and every
\* clause of the lexical list is returned ahead of any returned vector-only
\* entry.
C19_AlphaOnePureLexical ==
    (FuseDone /\ payload.alpha = One) =>
        /\ \A i \in 1..Len(combined) :
              combined[i].val.hybrid_score = combined[i].val.bm25_score
        /\ \A i \in 1..Len(combined) :
              ClauseOf(combined[i].val) \notin ClausesOf(given.os) =>
                  combined[i].val.hybrid_score = Zero
        /\ \A i \in 1..Len(fused) :
              ClauseOf(fused[i]) \notin ClausesOf(given.os) =>
                  \A p \in ClausesOf(given.os) : \E j \in PlacesOf(p) : j < i

\* the fused list is the hits of the one non-empty list, cut to top_k, scored
\* by weight w on the side the list belongs to
OnlyHitsOf(list, w, lexical) ==
    /\ Len(fused) = Min2(payload.top_k, Len(list))
    /\ \A i, j \in 1..Len(fused) : ClauseOf(fused[i]) = ClauseOf(fused[j]) => i = j
    /\ \A i \in 1..Len(fused) :
          \E j \in 1..Len(list) :
             /\ ClauseOf(list[j]) = ClauseOf(fused[i])
             /\ fused[i].hybrid_score = FMul(w, list[j].norm_score)
             /\ IF lexical
                THEN /\ fused[i].bm25_score = list[j].norm_score
                     /\ fused[i].vec_score = Zero
                ELSE /\ fused[i].vec_score = list[j].norm_score
                     /\ fused[i].bm25_score = Zero

\* C20: when exactly one list is empty fuse_results returns exactly the other
\* list's hits, up to top_k, each with the absent backend's score 0.0 and
\* hybrid_score = its own normalised score times alpha (lexical) or
\* 1 - alpha (vector).
C20_OneBackendEmpty ==
    FuseDone =>
        /\ (given.os # <<>> /\ given.qd = <<>>) =>
               OnlyHitsOf(os_results, payload.alpha, TRUE)
        /\ (given.os = <<>> /\ given.qd # <<>>) =>
               OnlyHitsOf(qdrant_results, FSub(One, payload.alpha), FALSE)

-----------------------------------------------------------------------------
(* Isolation of concurrent requests, checked under SpecTwo *)

\* what request q answers when it runs alone and the backends respond to it
\* with g (the two hit lists), backend (whether a request of hybrid_search
\* raised) and oracle (whether the reranker raised): ask.py lines 19-42
AskAlone(q, p, g, backend, oracle) ==
    LET f == fuse_results(g.os, g.qd, p.alpha, p.top_k)
    IN  IF backend # "returned" THEN ErrorResponse("Hybrid search failed")
        ELSE IF ~p.rerank THEN OkResponse(p, FALSE, f)
        ELSE IF oracle = "raised" THEN ErrorResponse("Reranking failed")
        ELSE OkResponse(p, TRUE, rerank(QueryLogits(q), f, p.top_k))

Searched(r) ==
    \/ pc[r] \in {"seed", "merge", "rank", "searched"}
    \/ pc[r] = "done" /\ backend_call[r] = "returned"

\* C16: under every interleaving of two requests, each request's normalised
\* lists, merge map and fused list are those it computes alone from the
\* backend responses it received, and its answer is the one it gives when it
\* runs alone and receives these same backend responses.
C16_ConcurrentRequestsIsolated ==
    \A r \in Reqs :
        /\ Searched(r) =>
               /\ os_results[r] = normalize_scores(given[r].os)
               /\ qdrant_results[r] = normalize_scores(given[r].qd)
        /\ pc[r] = "merge" => combined[r] = InsertBM25(<<>>, os_results[r])
        /\ pc[r] = "rank" =>
               combined[r] = MergeQdrant(InsertBM25(<<>>, os_results[r]), qdrant_results[r])
        /\ (Searched(r) /\ pc[r] \in {"searched", "done"}) =>
               /\ combined[r] = Combine(os_results[r], qdrant_results[r], payload[r].alpha)
               /\ fused[r] = fuse_results(given[r].os, given[r].qd,
                                          payload[r].alpha, payload[r].top_k)
        /\ pc[r] = "done" =>
               response[r] = AskAlone(r, payload[r], given[r],
                                      backend_call[r], oracle_call[r])

\* request 1 has answered 200 with its reranked hits while request 2, which
\* received other hit lists, is between seeding and merging its own map
C16_Witness ==
    /\ pc[1] = "done" /\ response[1].status = 200 /\ reranked[1]
    /\ pc[2] = "merge"
    /\ combined[1] # <<>> /\ combined[2] # <<>>
    /\ given[1] # given[2]
    /\ combined[1] # combined[2]

-----------------------------------------------------------------------------
(* Frame of normalize_scores, checked under SpecNorm *)

\* C21: normalize_scores hands back the same hits in the same order, every
\* field of every hit (the raw score among them) unchanged, with norm_score
\* the only field added; an empty list comes back empty.
C21_NormalizeKeepsHitsAndOrder ==
    pc = "norm_done" =>
        /\ Len(os_results) = Len(given.os)
        /\ given.os = <<>> => os_results = <<>>
        /\ \A i \in 1..Len(given.os) :
              /\ DOMAIN os_results[i] = DOMAIN given.os[i] \cup {"norm_score"}
              /\ \A k \in DOMAIN given.os[i] : os_results[i][k] = given.os[i][k]

\* three different clauses whose raw scores neither ascend nor descend
C21_Witness ==
    /\ pc = "norm_done"
    /\ Len(given.os) = 3
    /\ given.os[1].score < given.os[2].score
    /\ given.os[3].score < given.os[1].score
    /\ \A i, j \in 1..3 : i # j => ClauseOf(given.os[i]) # ClauseOf(given.os[j])
    /\ \A i \in 1..3 : ClauseOf(os_results[i]) = ClauseOf(given.os[i])

-----------------------------------------------------------------------------
(* Display score, highlights and keys of fused entries, checked under SpecFuse *)

\* the raw scores the given list holds for clause p
RawScoresOf(list, p) == {list[i].score : i \in {j \in 1..Len(list) : ClauseOf(list[j]) = p}}

\* C22: the display score of a fused entry is the larger of the lexical and
\* the vector raw score of its clause when the clause is in both lists and
\* the raw score of the one list it is in otherwise; the order of the fused
\* list follows hybrid_score alone.
C22_DisplayScoreIsMaxOfRaw ==
    FuseDone =>
        /\ \A i \in 1..Len(combined) :
              LET e == combined[i].val
                  raw == RawScoresOf(given.os, ClauseOf(e)) \cup RawScoresOf(given.qd, ClauseOf(e))
              IN  /\ e.score \in raw
                  /\ \A x \in raw : x <= e.score
        /\ \A i, j \in 1..Len(fused) :
              i < j => FLeq(fused[j].hybrid_score, fused[i].hybrid_score)

\* the highlight spans the lexical list holds for clause p
LexicalHighlight(p) ==
    given.os[CHOOSE i \in 1..Len(given.os) : ClauseOf(given.os[i]) = p].highlight

\* C23: every entry of the merge map and of the fused list whose clause is in
\* the lexical list carries that lexical hit's highlight spans, whether or
\* not the vector list has the clause too; an entry whose clause is only in
\* the vector list has no highlight spans.
C23_HighlightsFromLexicalOnly ==
    FuseDone =>
        /\ \A i \in 1..Len(combined) :
              LET e == combined[i].val
              IN  IF ClauseOf(e) \in ClausesOf(given.os)
                  THEN e.highlight = LexicalHighlight(ClauseOf(e))
                  ELSE e.highlight = <<>>
        /\ \A i \in 1..Len(fused) :
              LET e == fused[i]
              IN  IF ClauseOf(e) \in ClausesOf(given.os)
                  THEN e.highlight = LexicalHighlight(ClauseOf(e))
                  ELSE e.highlight = <<>>

\* a returned entry found by both backends that kept its lexical highlight,
\* next to a returned vector-only entry without any
C23_Witness ==
    /\ FuseDone
    /\ \E i, j \in 1..Len(fused) :
          /\ ClauseOf(fused[i]) \in ClausesOf(given.os) \cap ClausesOf(given.qd)
          /\ fused[i].highlight # <<>>
          /\ ClauseOf(fused[j]) \notin ClausesOf(given.os)
          /\ fused[j].highlight = <<>>

\* C24: no two returned entries have the same join key (contract_id,
\* clause_id), every returned entry's key is the key of a hit of one of the
\* two lists, and when top_k is at least the number of distinct keys of the
\* two lists every key is returned exactly once.
C24_KeysUniqueAndComplete ==
    FuseDone =>
        LET keys == ClausesOf(given.os) \cup ClausesOf(given.qd)
        IN  /\ \A i, j \in 1..Len(fused) :
                  ClauseOf(fused[i]) = ClauseOf(fused[j]) => i = j
            /\ \A i \in 1..Len(fused) : ClauseOf(fused[i]) \in keys
            /\ payload.top_k >= Cardinality(keys) =>
                  \A p \in keys : Cardinality(PlacesOf(p)) = 1

-----------------------------------------------------------------------------
(* Properties of the knowledge graph, checked under SpecKG *)

KGDone == pc \in {"kg_done", "kg_again"}

Reverse(q) == [i \in 1..Len(q) |-> q[Len(q) + 1 - i]]

Range(q) == {q[i] : i \in 1..Len(q)}

\* the Party and Obligation nodes clause c itself gives rise to
PartiesOf(c) ==
    {node_key("Party", [name |-> x]) : x \in {y \in Range(c.parties) : ~Falsy(y)}}
ObligationsOf(c) ==
    {node_key("Obligation", [text |-> x]) :
        x \in {y \in Range(c.obligations) : ~Falsy(y) /\ StrLen(y) >= 5}}

\* C25: every OBLIGATES edge links a party of some clause to an obligation of
\* that same clause, and the set of edges is the same when the clauses are
\* processed in the opposite order.
C25_ObligatesOnlyOwnParties ==
    KGDone =>
        /\ \A e \in Range(edges) :
              e.type = "OBLIGATES" =>
                  \E c \in Range(clauses) :
                      e.src \in PartiesOf(c) /\ e.dst \in ObligationsOf(c)
        /\ Range(build_kg(Reverse(clauses)).edges) = Range(edges)

\* the names of all parties of the clause list, in processing order
RECURSIVE PartyNames(_)
PartyNames(cs) ==
    IF cs = <<>> THEN <<>>
    ELSE SelectSeq(Head(cs).parties, LAMBDA x : ~Falsy(x)) \o PartyNames(Tail(cs))

FirstNamed(key) ==
    LET names == PartyNames(clauses)
    IN  names[CHOOSE i \in 1..Len(names) :
                 /\ Strip(names[i]) = key
                 /\ \A j \in 1..(i - 1) : Strip(names[j]) # key]

NodeIds == {nodes[i].id : i \in 1..Len(nodes)}

\* C26: no two nodes and no two edges share an id, a node added again under
\* an id already present keeps the record added first, both ends of every
\* edge are nodes of the graph, and a second run of build_kg on the same
\* clause list, called where the first run has left its graph, gives the
\* same nodes and edges as the first.
C26_DeduplicatedAndStable ==
    /\ [](KGDone =>
            /\ \A i, j \in 1..Len(nodes) : nodes[i].id = nodes[j].id => i = j
            /\ \A i, j \in 1..Len(edges) : edges[i].id = edges[j].id => i = j
            /\ \A i \in 1..Len(nodes) :
                  nodes[i].type = "Party" =>
                      nodes[i].props.name = FirstNamed(nodes[i].id[2])
            /\ \A i \in 1..Len(edges) :
                  edges[i].src \in NodeIds /\ edges[i].dst \in NodeIds)
    /\ [][(pc = "kg_done" /\ pc' = "kg_again") =>
             (nodes' = nodes /\ edges' = edges)]_vars

\* the party named "A" in one clause and "A " in a later one: one Party node,
\* mentioned by both clauses, after the second run; the first clause holds an
\* obligation, the only party in the dict when it is added is "A", and the
\* second run has not linked it to the party "B" the first run added later
C26_Witness ==
    /\ pc = "kg_again"
    /\ Len(clauses) = 2
    /\ clauses[1].parties = <<"A">>
    /\ clauses[2].parties = <<"A ", "B">>
    /\ clauses[1].clause_id # clauses[2].clause_id
    /\ clauses[1].obligations = <<"shall pay">>
    /\ clauses[2].obligations = <<>>
    /\ Cardinality({i \in 1..Len(edges) : edges[i].type = "OBLIGATES"}) = 1
    /\ Cardinality({i \in 1..Len(nodes) : nodes[i].type = "Party"}) = 2
    /\ Cardinality({i \in 1..Len(edges) : edges[i].type = "MENTIONS_PARTY"}) = 3

-----------------------------------------------------------------------------
(* Properties of /ingest, checked under SpecIngest *)

NotValidJSON(f) == f.kind \in {"undecodable", "malformed"}

\* C27: a missing clause file is answered with 404 and a file that is not
\* valid JSON with 400, in both cases with the two stores left as they were;
\* an ingestion run that raises is answered with 500; and a 200 response is
\* given only when the run succeeded, with indexed equal to the number of
\* clauses in the file.
C27_IngestErrorsAndCount ==
    /\ [](pc = "ingest_done" =>
            /\ payload.json_path.kind = "missing" => response.status = 404
            /\ NotValidJSON(payload.json_path) => response.status = 400
            /\ backend_call \in {"read_raised", "opensearch_raised", "qdrant_raised"} =>
                   response.status = 500
            /\ response.status = 200 =>
                   /\ backend_call = "returned"
                   /\ payload.json_path.kind = "list"
                   /\ response.indexed = Len(payload.json_path.clauses))
    /\ [][(pc = "ingest_call" /\ pc' = "ingest_done"
             /\ (payload.json_path.kind = "missing" \/ NotValidJSON(payload.json_path)))
            => UNCHANGED store_vars]_vars

====
